---- MODULE Spec2Model ----
(***************************************************************************)
(* Model of the file-transfer receiver: FileClient of file_client_new.py   *)
(* (receive_file with its retry loop) and FileClient of flet_client.py     *)
(* (single-attempt receive_file), together with the presentation layer's   *)
(* connect / disconnect button and the byte stream the peer writes.        *)
(*                                                                         *)
(* A byte is a one-character string.  A stream or buffer is a record       *)
(* [pad, text]: pad bytes of filler (neither '|' nor '\n') followed by     *)
(* the bytes of text.  pad lets a buffer of more than a million bytes be   *)
(* a state of the model.                                                   *)
(***************************************************************************)
EXTENDS Integers, Sequences, FiniteSets, TLC

\* ---------------------------------------------------------------- bounds
MaxSize == 2        \* largest size of the served file, in bytes
MaxGuiOps == 2      \* connect / disconnect clicks of the user
MaxSends == 2       \* client sockets a server sends the file to
MaxClicks == 3      \* start / stop / select clicks on a server

\* ------------------------------------------------------ program constants
BUFFER_SIZE == 4096
MAX_RETRIES == 3
RETRY_DELAY == 2
HEADER_CAP == 1024000
PROGRESS_INTERVAL == 100   \* 0.1 s, in milliseconds

\* ------------------------------------------------------------ byte strings
NEWLINE == "\n"
BAR == "|"
Digits == <<"0", "1", "2", "3", "4", "5", "6", "7", "8", "9">>
PayloadBytes == <<"a", "b", "c", "d", "e", "f", "g", "h">>

Min(a, b) == IF a < b THEN a ELSE b

IsDigit(c) == \E i \in 1..10 : Digits[i] = c
DigitVal(c) == (CHOOSE i \in 1..10 : Digits[i] = c) - 1

\* str(n) of a Python int
RECURSIVE StrNat(_)
StrNat(n) == IF n < 10 THEN <<Digits[n + 1]>>
             ELSE StrNat(n \div 10) \o <<Digits[(n % 10) + 1]>>
StrInt(n) == IF n < 0 THEN <<"-">> \o StrNat(0 - n) ELSE StrNat(n)

\* int(s) of a Python str: an optional sign and at least one digit
\* (blanks and underscores are outside the alphabet of the model)
Unsigned(s) == IF s # <<>> /\ Head(s) \in {"-", "+"} THEN Tail(s) ELSE s
IsIntText(s) == /\ Unsigned(s) # <<>>
                /\ \A i \in 1..Len(Unsigned(s)) : IsDigit(Unsigned(s)[i])
RECURSIVE NatVal(_)
NatVal(s) == IF s = <<>> THEN 0
             ELSE 10 * NatVal(SubSeq(s, 1, Len(s) - 1)) + DigitVal(s[Len(s)])
IntVal(s) == IF s # <<>> /\ Head(s) = "-" THEN 0 - NatVal(Unsigned(s))
             ELSE NatVal(Unsigned(s))

\* bytes.find(b'\n'): index (from 1) of the first newline, 0 when absent
FindNewline(s) == IF \E i \in 1..Len(s) : s[i] = NEWLINE
                  THEN CHOOSE i \in 1..Len(s) :
                         s[i] = NEWLINE /\ \A j \in 1..(i - 1) : s[j] # NEWLINE
                  ELSE 0

\* str.split('|')
RECURSIVE Split(_)
Split(s) == IF \E i \in 1..Len(s) : s[i] = BAR
            THEN LET i == CHOOSE k \in 1..Len(s) :
                            s[k] = BAR /\ \A j \in 1..(k - 1) : s[j] # BAR
                 IN <<SubSeq(s, 1, i - 1)>> \o Split(SubSeq(s, i + 1, Len(s)))
            ELSE <<s>>

\* buffers with filler
Buf(pad, text) == [pad |-> pad, text |-> text]
EmptyBuf == Buf(0, <<>>)
BufLen(b) == b.pad + Len(b.text)
BufCat(b, c) == IF c.pad = 0 THEN Buf(b.pad, b.text \o c.text)
                ELSE Buf(b.pad + c.pad, c.text)   \* only filler follows filler
HasNewline(b) == FindNewline(b.text) # 0
\* the first n bytes of b, and the rest
BufTake(b, n) == IF n <= b.pad THEN Buf(n, <<>>)
                 ELSE Buf(b.pad, SubSeq(b.text, 1, n - b.pad))
BufDrop(b, n) == IF n <= b.pad THEN Buf(b.pad - n, b.text)
                 ELSE Buf(0, SubSeq(b.text, n - b.pad + 1, Len(b.text)))


\* ------------------------------------------------- binary64 floating point
\* A positive float is a 53-bit number m, written as the digit 1 followed by
\* four digits of 13 bits, and an exponent e: its value is m * 2^(e - 52)
RADIX == 8192
Float(m, e) == [m |-> m, e |-> e]
Front(s) == SubSeq(s, 1, Len(s) - 1)
RECURSIVE Pow2(_)
Pow2(k) == IF k = 0 THEN 1 ELSE 2 * Pow2(k - 1)

\* the digits ds with c added to the last of them, every digit below RADIX
RECURSIVE Carry(_, _)
Carry(ds, c) ==
  IF ds = <<>> THEN IF c = 0 THEN <<>> ELSE <<c>>
  ELSE LET v == ds[Len(ds)] + c
       IN Carry(Front(ds), v \div RADIX) \o <<v % RADIX>>

\* round to nearest, ties to even, has decided: up or not
Rounded(m, e, up) ==
  LET n == IF up THEN Carry(m, 1) ELSE m
  IN IF n[1] = 2 THEN Float(<<1, 0, 0, 0, 0>>, e + 1) ELSE Float(n, e)

\* the next n digits of r / b (r < b), and what is left of r
RECURSIVE DivDigits(_, _, _)
DivDigits(r, b, n) ==
  IF n = 0 THEN [digits |-> <<>>, rem |-> r]
  ELSE LET rest == DivDigits((r * RADIX) % b, b, n - 1)
       IN [digits |-> <<(r * RADIX) \div b>> \o rest.digits, rem |-> rest.rem]

\* the number of doublings that take a to b or more
RECURSIVE Doublings(_, _)
Doublings(a, b) == IF a >= b THEN 0 ELSE 1 + Doublings(2 * a, b)

\* a / b of two Python ints, 0 < a <= b < 2^18: the float nearest to the
\* quotient
TrueDiv(a, b) ==
  LET k == Doublings(a, b)
      q == DivDigits(a * Pow2(k) - b, b, 5)
      m == <<1>> \o SubSeq(q.digits, 1, 4)
      g == q.digits[5]
      half == RADIX \div 2
      up == g > half \/ (g = half /\ (q.rem # 0 \/ m[5] % 2 = 1))
  IN Rounded(m, 0 - k, up)

\* x * 100 of a float x
Times100(x) ==
  LET p == Carry([i \in 1..5 |-> x.m[i] * 100], 0)
      s == IF p[1] >= 128 THEN 7 ELSE 6
      w == Pow2(s)
      m == [i \in 1..5 |->
              (IF i = 1 THEN 0 ELSE (p[i - 1] % w) * (RADIX \div w))
                + (p[i] \div w)]
      g == p[5] % w
      half == w \div 2
      up == g > half \/ (g = half /\ m[5] % 2 = 1)
  IN Rounded(m, x.e + s, up)

\* int(x) of a float x below 2^14: the bits that stand for 2^0 and above
Trunc(x) == IF x.e < 0 THEN 0
            ELSE (x.m[1] * RADIX + x.m[2]) \div Pow2(13 - x.e)

\* ------------------------------------------------------------------ state
VARIABLES
  impl,              \* which program runs: a client ("new": file_client_new,
                     \* "flet": flet_client) or a server
  served,            \* size of the file the server serves
  connected,         \* FileClient.connected
  socket,            \* FileClient.socket
  download_history,  \* FileClient.download_history
  fs,                \* the files on disk: path -> content
  rf,                \* the frame of the receive_file call (its locals)
  conns,             \* connections opened so far
  gui_ops,           \* clicks used
  file,              \* the content of the file a server sends
  transfer_history,  \* FileServer.transfer_history
  sf,                \* the frames of the send calls, one per client socket
  ui,                \* the progress window of the client and a second call
  srv                \* the FileServer object and its threads

clientVars == <<connected, socket, download_history, fs, rf, conns, gui_ops>>
senderVars == <<file, transfer_history, sf>>
sessionVars == <<ui, srv>>
vars == <<impl, served, connected, socket, download_history, fs, rf, conns,
          gui_ops, file, transfer_history, sf, ui, srv>>

Clients == {"new", "flet"}
Servers == {"file_server_new", "flet_server"}

\* ------------------------------------------------------------ environment
SERVER == "server"      \* the (host, port) the user typed: the file server
CLIENT == "client"      \* the local (address, port) of a connected socket
ANYADDR == "0.0.0.0:0"  \* getsockname() of a socket that is not connected

ServedName == <<"r">>
ServedExt == <<".", "x">>
\* os.path.basename(file_path) of the file a server sends
FileName == ServedName \o ServedExt
Payload(n) == SubSeq(PayloadBytes, 1, n)

\* FileServer.send_file / FileServer._send_file: "name|size" and a newline
EncodeHeader2(name, size) == name \o <<BAR>> \o StrInt(size) \o <<NEWLINE>>
\* the three-field form "name|size|extension" and a newline
EncodeHeader3(name, size, ext) ==
  name \o <<BAR>> \o StrInt(size) \o <<BAR>> \o ext \o <<NEWLINE>>

\* everything a peer writes on one connection
WireKinds == {"three", "two", "onefield", "notnumber", "filler", "negative",
              "excess"}
\* the header line of the form the running client parses
HeaderFor(name, size, ext) == IF impl = "new" THEN EncodeHeader3(name, size, ext)
                              ELSE EncodeHeader2(name, size)
Wire(kind, n) ==
  CASE kind = "three" ->
         Buf(0, EncodeHeader3(ServedName, n, ServedExt) \o Payload(n))
    [] kind = "two" -> Buf(0, EncodeHeader2(ServedName, n) \o Payload(n))
    [] kind = "onefield" -> Buf(0, ServedName \o <<NEWLINE>>)
    [] kind = "notnumber" ->
         Buf(0, ServedName \o <<BAR, "z", BAR>> \o ServedExt \o <<NEWLINE>>)
    [] kind = "filler" -> Buf(HEADER_CAP + 1, <<>>)
    \* a declared size below zero
    [] kind = "negative" -> Buf(0, HeaderFor(ServedName, -1, ServedExt))
    \* the file, and then the first byte of what the peer writes next
    [] kind = "excess" ->
         Buf(0, HeaderFor(ServedName, n, ServedExt) \o Payload(n)
                  \o ServedName)

NoSocket == [state |-> "none", local |-> "", peer |-> "", wire |-> EmptyBuf,
             kind |-> "", conn |-> 0]

Exc(type, text) == [type |-> type, text |-> text]
NoExc == Exc("None", "")
\* socket.error is OSError; ConnectionError is a subclass of it
IsSocketError(e) == e.type \in {"OSError", "ConnectionError"}

NoOutcome == [kind |-> "none", value |-> FALSE, exc |-> NoExc]
Return(v) == [kind |-> "return", value |-> v, exc |-> NoExc]
Raise(e) == [kind |-> "raise", value |-> FALSE, exc |-> e]

Path(stem, ext) == [stem |-> stem, ext |-> ext]
SavePaths == {Path("out", <<>>), Path("out", <<".", "y">>)}
UNKNOWN == <<"unknown">>

Status(kind, text, received, total) ==
  [kind |-> kind, text |-> text, received |-> received, total |-> total]
StatusComplete == Status("Complete", "", 0, 0)
StatusFailed(e) == Status("Failed: ", e.text, 0, 0)
StatusIncomplete(r, n) == Status("Incomplete", "", r, n)

IdleFrame ==
  [pc |-> "idle", attempt |-> 0, last_exception |-> NoExc,
   header_data |-> EmptyBuf, file_name |-> <<>>, file_size |-> 0,
   save_path |-> Path("out", <<>>), received_bytes |-> 0, file_mode |-> "",
   args |-> "", progress |-> <<>>, outcome |-> NoOutcome, sleeps |-> 0,
   \* bookkeeping of the current attempt: where its first write lands, the
   \* payload bytes it counted in received_bytes, the bytes it wrote
   offset |-> 0, got |-> <<>>, put |-> <<>>,
   \* bookkeeping of the call: whether it found the client connected, the
   \* history length and the connection when it started, the reads that
   \* failed (b'' or an exception), the bytes on disk when a payload read
   \* failed with a retry left (-1: never), and whether a payload read
   \* returned b'' with no retry left
   started |-> FALSE, hist0 |-> 0, conn0 |-> 0, faults |-> 0, drop |-> -1,
   short |-> FALSE,
   \* the clock of the attempt, in milliseconds: time.time() minus
   \* last_progress_update at the last read of the clock, the time from
   \* last_progress_update = time.time() to the start of the payload loop, the
   \* time since the last progress callback in the loop (since the start of
   \* the loop before the first), whether the loop has made a callback, and
   \* the callbacks made in the loops of the call
   since |-> 0, open_delay |-> 0, idle |-> 0, fired |-> FALSE, gaps |-> <<>>]

\* a send call that has not started
IdleSend ==
  [pc |-> "idle", file_size |-> 0, sent_bytes |-> 0, progress |-> <<>>,
   outcome |-> NoOutcome,
   \* bookkeeping: the position of the file object, the header bytes and the
   \* payload bytes the transport accepted, whether a write was short, whether
   \* a write raised
   pos |-> 0, header_out |-> <<>>, out |-> EmptyBuf, short |-> FALSE,
   failed |-> FALSE]

\* the client sockets a server sends to, one send call each
Senders == 1..MaxSends

\* the presentation layer of the client before Receive is clicked: whether
\* the progress window of the call was destroyed (Cancel), and where a second
\* receive_file call is
IdleUi == [cancelled |-> FALSE, second |-> "none"]

\* FileServer after __init__, with its threads: the accept loops (pc, the
\* client socket accept returned, the run whose socket the thread accepts
\* on), the thread of the presentation layer (pc, and the index of its for
\* loop), the client sockets, the send threads started and running per
\* client socket, the handler threads of flet_server
IdleServer ==
  [is_running |-> FALSE, server_socket |-> "none", run |-> 0,
   connected_clients |-> <<>>,
   selected_file |-> FALSE, selects |-> 0,
   accept |-> [pc |-> "none", client |-> 0, run |-> 0],
   prev |-> [pc |-> "none", client |-> 0, run |-> 0],
   main |-> [pc |-> "idle", i |-> 0],
   sock |-> [c \in Senders |-> "none"],
   sends |-> [c \in Senders |-> 0],
   active |-> [c \in Senders |-> 0],
   handler |-> [c \in Senders |-> "none"],
   ops |-> 0]
\* what the file of a server may hold: less than a chunk, exactly one chunk,
\* one chunk and a byte, or fifty chunks (for the server that reports the
\* percent sent)
LONG_FILE == 50 * BUFFER_SIZE
ServedFiles ==
  {Buf(p, Payload(served)) :
     p \in CASE served = 0 /\ impl = "file_server_new" ->
                 {0, BUFFER_SIZE, LONG_FILE}
            [] served <= 1 -> {0, BUFFER_SIZE}
            [] OTHER -> {0}}
\* the client sockets the file is sent to: a file of more than two chunks
\* goes to the first of them only
SendTo == IF BufLen(file) > 2 * BUFFER_SIZE THEN {1} ELSE Senders

Init ==
  /\ impl \in Clients \cup Servers
  /\ served \in 0..MaxSize
  /\ file \in IF impl \in Servers THEN ServedFiles ELSE {EmptyBuf}
  /\ transfer_history = <<>>
  /\ sf = [t \in Senders |-> IdleSend]
  /\ connected = FALSE
  /\ socket = NoSocket
  /\ download_history = <<>>
  /\ fs = <<>>
  /\ rf = IdleFrame
  /\ conns = 0
  /\ gui_ops = 0
  /\ ui = IdleUi
  /\ srv = IdleServer

\* --------------------------------------------------------------- the disk
Exists(files, p) == p \in DOMAIN files
WriteFile(files, p, content) ==
  [q \in (DOMAIN files) \cup {p} |-> IF q = p THEN content ELSE files[q]]
AppendFile(files, p, data) ==
  WriteFile(files, p, (IF Exists(files, p) THEN files[p] ELSE <<>>) \o data)

\* connect without the test of self.connected
Connect_Redials(host, ok, kind) ==
  IF FALSE
  THEN [ret |-> FALSE, connected |-> connected, socket |-> socket,
        conns |-> conns]
  ELSE IF ok
  THEN [ret |-> TRUE, connected |-> TRUE,
        socket |-> [state |-> "open", local |-> CLIENT, peer |-> host,
                    wire |-> Wire(kind, served), kind |-> kind,
                    conn |-> conns + 1],
        conns |-> conns + 1]
  ELSE [ret |-> FALSE, connected |-> FALSE,
        socket |-> [state |-> "unconnected", local |-> ANYADDR, peer |-> "",
                    wire |-> EmptyBuf, kind |-> "", conn |-> 0],
        conns |-> conns]

\* ------------------------------------------------- connect and disconnect
\* FileClient.connect(host, port); ok and kind are the network's answer
Connect(host, ok, kind) ==
  IF connected
  THEN [ret |-> FALSE, connected |-> connected, socket |-> socket,
        conns |-> conns]
  ELSE IF ok
  THEN [ret |-> TRUE, connected |-> TRUE,
        socket |-> [state |-> "open", local |-> CLIENT, peer |-> host,
                    wire |-> Wire(kind, served), kind |-> kind,
                    conn |-> conns + 1],
        conns |-> conns + 1]
  ELSE [ret |-> FALSE, connected |-> FALSE,
        socket |-> [state |-> "unconnected", local |-> ANYADDR, peer |-> "",
                    wire |-> EmptyBuf, kind |-> "", conn |-> 0],
        conns |-> conns]
\* nothing listens on port 0
DialAnswers(host) == IF host = ANYADDR THEN {FALSE} ELSE BOOLEAN
\* what the peer of a new connection may write.  The filler stream takes
\* hundreds of reads: it is served on the first connection only, and the user
\* does not click while the client is connected to a filler peer.  The peers
\* that declare a negative size or write past the file are met on the first
\* connection only
FirstOnly == {"filler", "negative", "excess"}
Offered(first) == IF first THEN WireKinds ELSE WireKinds \ FirstOnly
UserMayClick == socket.kind # "filler"

\* toggle_connect of the presentation layer on a client that is not connected
GuiConnect ==
  /\ impl \in Clients
  /\ gui_ops < MaxGuiOps /\ UserMayClick
  /\ ~connected
  /\ \E ok \in DialAnswers(SERVER), kind \in Offered(gui_ops = 0) :
       LET r == Connect(SERVER, ok, kind)
       IN /\ connected' = r.connected
          /\ socket' = r.socket
          /\ conns' = r.conns
  /\ gui_ops' = gui_ops + 1
  /\ UNCHANGED <<impl, served, download_history, fs, rf>>
  /\ UNCHANGED senderVars
  /\ UNCHANGED sessionVars

\* what self.socket.close() can do: return, or raise OSError when the close
\* of the descriptor fails (only a socket that is open has one)
CloseOutcomes(sk) == IF sk.state = "open" THEN {TRUE, FALSE} ELSE {TRUE}

\* FileClient.disconnect() on a client with flag c and socket sk: the socket
\* object is closed whether close() returns or raises; the flag is cleared
\* only when it returns
DisconnectOf(c, sk, closes) ==
  IF ~c THEN [connected |-> c, socket |-> sk]
  ELSE [connected |-> ~closes,
        socket |-> IF sk.state = "none" THEN sk
                   ELSE [sk EXCEPT !.state = "closed"]]
Disconnect(closes) == DisconnectOf(connected, socket, closes)

\* toggle_connect of the presentation layer on a connected client.  It can
\* run while receive_file is running in its thread: the progress window is
\* modal only until Cancel destroys it, and Cancel does not stop the thread
GuiDisconnect ==
  /\ impl \in Clients
  /\ gui_ops < MaxGuiOps /\ UserMayClick
  /\ connected
  /\ \E closes \in CloseOutcomes(socket) :
       /\ connected' = Disconnect(closes).connected
       /\ socket' = Disconnect(closes).socket
  /\ gui_ops' = gui_ops + 1
  /\ UNCHANGED <<impl, served, download_history, fs, rf, conns>>
  /\ UNCHANGED senderVars
  /\ UNCHANGED sessionVars

\* ------------------------------------------------------------ socket reads
\* what self.socket.recv(k) can do: deliver 1..k bytes of what the peer wrote
\* (filler arrives in full reads), return b'' (the peer closed), or raise
DataSizes(k) == IF socket.wire.pad > 0 THEN {Min(k, socket.wire.pad)}
                ELSE 1..Min(k, Len(socket.wire.text))
RecvOutcomes(k) ==
  IF socket.state # "open" THEN {[kind |-> "error", n |-> 0]}
  ELSE {[kind |-> "error", n |-> 0], [kind |-> "eof", n |-> 0]}
       \cup {[kind |-> "data", n |-> m] : m \in DataSizes(k)}
RecvError == IF socket.state = "open"
             THEN Exc("OSError", "Connection reset by peer")
             ELSE Exc("OSError", "Bad file descriptor")
Chunk(o) == BufTake(socket.wire, o.n)
AfterRecv(o) ==
  CASE o.kind = "data" -> [socket EXCEPT !.wire = BufDrop(@, o.n)]
    [] o.kind = "eof" -> [socket EXCEPT !.wire = EmptyBuf]
    [] OTHER -> socket

\* ----------------------------------------------------------- header codec
\* header_data[:header_end] with header_end = header_data.find(b'\n'), which
\* is -1 when there is no newline: then all but the last byte
HeaderLine(hd) ==
  LET i == FindNewline(hd.text)
  IN IF i # 0 THEN Buf(hd.pad, SubSeq(hd.text, 1, i - 1))
     ELSE IF BufLen(hd) = 0 THEN hd ELSE BufTake(hd, BufLen(hd) - 1)
\* header_data[header_end + 1:]: with header_end = -1 the whole buffer
RemainingData(hd) ==
  LET i == FindNewline(hd.text)
  IN IF i # 0 THEN Buf(0, SubSeq(hd.text, i + 1, Len(hd.text))) ELSE hd
\* DecodeHeader taking a size field that is not a number as 0
DecodeHeader_SizeDefaultsToZero(hd, nfields) ==
  LET fields == Split(HeaderLine(hd).text)
      ok == Len(fields) = nfields
  IN [ok |-> ok,
      file_name |-> IF ok THEN fields[1] ELSE <<>>,
      file_size |-> IF ok /\ IsIntText(fields[2]) THEN IntVal(fields[2])
                    ELSE 0,
      file_extension |-> IF ok /\ nfields = 3 THEN fields[3] ELSE <<>>,
      remaining_data |-> RemainingData(hd)]

\* header.split('|') unpacked into nfields names, then int(file_size);
\* filler bytes only lengthen the first field
DecodeHeader(hd, nfields) ==
  LET fields == Split(HeaderLine(hd).text)
      ok == Len(fields) = nfields /\ IsIntText(fields[2])
  IN [ok |-> ok,
      file_name |-> IF ok THEN fields[1] ELSE <<>>,
      file_size |-> IF ok THEN IntVal(fields[2]) ELSE 0,
      file_extension |-> IF ok /\ nfields = 3 THEN fields[3] ELSE <<>>,
      remaining_data |-> RemainingData(hd)]

\* int((received_bytes / file_size) * 100): the true division gives a float,
\* the product is a float, and int() drops its fraction
Percent(received, size) ==
  IF received = 0 THEN 0 ELSE Trunc(Times100(TrueDiv(received, size)))

\* ------------------------------------- receive_file of file_client_new.py
\* a step of the call works on the frame, the disk and the history
St(f, files, dh) == [rf |-> f, fs |-> files, dh |-> dh]

DownloadRecord(path, name, size, status) ==
  [path |-> path, original_name |-> name, size |-> size, status |-> status]

\* OuterExcept sleeping the delay after the final attempt too
OuterExcept_SleepOnLast(s, e) ==
  IF s.rf.attempt < MAX_RETRIES - 1
  THEN [s EXCEPT !.rf.last_exception = e, !.rf.sleeps = @ + 1,
                 !.rf.attempt = @ + 1, !.rf.pc = "loop"]
  ELSE [s EXCEPT !.rf.last_exception = e, !.rf.sleeps = @ + 1,
                 !.rf.outcome = Raise(e), !.rf.pc = "done"]

\* except Exception as e (the handler of the attempt)
OuterExcept(s, e) ==
  IF s.rf.attempt < MAX_RETRIES - 1
  THEN [s EXCEPT !.rf.last_exception = e, !.rf.sleeps = @ + 1,
                 !.rf.attempt = @ + 1, !.rf.pc = "loop"]
  ELSE [s EXCEPT !.rf.last_exception = e, !.rf.outcome = Raise(e),
                 !.rf.pc = "done"]

\* the attempt ends without an exception and without a return
NextAttempt(s) == [s EXCEPT !.rf.attempt = @ + 1, !.rf.pc = "loop"]

\* Complete without the final progress_callback(100, ...)
Complete_NoFinalCallback(s) ==
  [s EXCEPT !.dh = Append(@, DownloadRecord(s.rf.save_path, s.rf.file_name,
                                            s.rf.file_size, StatusComplete)),
            !.rf.outcome = Return(TRUE),
            !.rf.pc = "done"]

\* if received_bytes >= file_size: final callback, record, return True
Complete(s) ==
  [s EXCEPT !.rf.progress = Append(@, 100),
            !.dh = Append(@, DownloadRecord(s.rf.save_path, s.rf.file_name,
                                            s.rf.file_size, StatusComplete)),
            !.rf.outcome = Return(TRUE),
            !.rf.pc = "done"]

\* AfterLoop putting its record in place of the history
AfterLoop_ReplacesHistory(s) ==
  IF s.rf.last_exception # NoExc
  THEN [s EXCEPT !.dh = <<DownloadRecord(s.rf.save_path, UNKNOWN, 0,
                                         StatusFailed(s.rf.last_exception))>>,
                 !.rf.outcome = Raise(s.rf.last_exception),
                 !.rf.pc = "done"]
  ELSE [s EXCEPT !.rf.outcome = Return(FALSE), !.rf.pc = "done"]

\* the code after the for loop
AfterLoop(s) ==
  IF s.rf.last_exception # NoExc
  THEN [s EXCEPT !.dh = Append(@, DownloadRecord(s.rf.save_path, UNKNOWN, 0,
                                       StatusFailed(s.rf.last_exception))),
                 !.rf.outcome = Raise(s.rf.last_exception),
                 !.rf.pc = "done"]
  ELSE [s EXCEPT !.rf.outcome = Return(FALSE), !.rf.pc = "done"]

\* the time that passes, in milliseconds, from last_progress_update =
\* time.time() to the payload loop (makedirs, open, the write of the
\* leftover), in a read of the payload loop, and in a progress callback
\* The clock is followed for files of up to CLOCKED bytes; with a larger file
\* every read takes longer than the interval and nothing else takes time.
CLOCKED == 2
OpenDelays == IF served <= CLOCKED THEN {0, 150} ELSE {0}
RecvDelays == IF served <= CLOCKED THEN {60, 150} ELSE {150}
CallbackDelays == IF served <= CLOCKED THEN {0, 60} ELSE {0}

\* a progress callback of the payload loop, made after a read that took d
\* milliseconds: the time since the callback before it (since the start of
\* the loop when it is the first of the attempt), and the time since
\* last_progress_update
Called(f, d) == [ms |-> f.idle + d, first |-> ~f.fired, waited |-> f.since + d]

\* Due making a callback after every chunk
Due_Always(elapsed) == TRUE

\* (current_time - last_progress_update) > 0.1
Due(elapsed) == elapsed > PROGRESS_INTERVAL

\* 'ab' if attempt > 0 and os.path.exists(save_path) else 'wb'
FileMode(attempt, exists) == IF attempt > 0 /\ exists THEN "ab" ELSE "wb"

\* if remaining_data and file_mode == 'wb': file.write(remaining_data)
LeftoverWritten(remaining, mode) == BufLen(remaining) > 0 /\ mode = "wb"

\* save_path + file_extension when os.path.splitext(save_path)[1] == ''
WithExtension(path, ext) == IF path.ext = <<>> THEN Path(path.stem, ext)
                            ELSE path

\* ParseAndOpen entering the payload loop when received_bytes = file_size
ParseAndOpen_LoopAtEqual(s, hd, d) ==
  LET h == DecodeHeader(hd, 3)
      path == WithExtension(s.rf.save_path, h.file_extension)
      mode == FileMode(s.rf.attempt, Exists(s.fs, path))
      put == IF LeftoverWritten(h.remaining_data, mode)
             THEN h.remaining_data.text ELSE <<>>
      files == IF mode = "wb" THEN WriteFile(s.fs, path, put)
               ELSE AppendFile(s.fs, path, put)
      t == [s EXCEPT !.fs = files,
                     !.rf.header_data = hd,
                     !.rf.file_name = h.file_name,
                     !.rf.file_size = h.file_size,
                     !.rf.save_path = path,
                     !.rf.received_bytes = BufLen(h.remaining_data),
                     !.rf.file_mode = mode,
                     !.rf.offset = IF mode = "ab" THEN Len(s.fs[path]) ELSE 0,
                     !.rf.got = h.remaining_data.text,
                     !.rf.put = put]
  IN IF ~h.ok
     THEN OuterExcept([s EXCEPT !.rf.header_data = hd],
                      Exc("ValueError", "Invalid file header format"))
     ELSE IF t.rf.received_bytes <= t.rf.file_size
     THEN [t EXCEPT !.rf.pc = "payload", !.rf.since = d,
                    !.rf.open_delay = d, !.rf.idle = 0, !.rf.fired = FALSE]
     ELSE Complete(t)

\* from the parse of the header to the start of the payload loop, which
\* takes d milliseconds from the read of the clock on
ParseAndOpen(s, hd, d) ==
  LET h == DecodeHeader(hd, 3)
      path == WithExtension(s.rf.save_path, h.file_extension)
      mode == FileMode(s.rf.attempt, Exists(s.fs, path))
      put == IF LeftoverWritten(h.remaining_data, mode)
             THEN h.remaining_data.text ELSE <<>>
      files == IF mode = "wb" THEN WriteFile(s.fs, path, put)
               ELSE AppendFile(s.fs, path, put)
      t == [s EXCEPT !.fs = files,
                     !.rf.header_data = hd,
                     !.rf.file_name = h.file_name,
                     !.rf.file_size = h.file_size,
                     !.rf.save_path = path,
                     !.rf.received_bytes = BufLen(h.remaining_data),
                     !.rf.file_mode = mode,
                     !.rf.offset = IF mode = "ab" THEN Len(s.fs[path]) ELSE 0,
                     !.rf.got = h.remaining_data.text,
                     !.rf.put = put]
  IN IF ~h.ok
     THEN OuterExcept([s EXCEPT !.rf.header_data = hd],
                      Exc("ValueError", "Invalid file header format"))
     ELSE IF t.rf.received_bytes < t.rf.file_size
     THEN [t EXCEPT !.rf.pc = "payload", !.rf.since = d,
                    !.rf.open_delay = d, !.rf.idle = 0, !.rf.fired = FALSE]
     ELSE Complete(t)

\* one self.socket.recv(BUFFER_SIZE) of the header loop and what follows it
HeaderStep(s, o, d) ==
  LET e == IF o.kind = "eof"
           THEN Exc("ConnectionError",
                    "Connection closed before receiving file header")
           ELSE RecvError
      hd == BufCat(s.rf.header_data, Chunk(o))
  IN IF o.kind # "data"
     THEN IF s.rf.attempt < MAX_RETRIES - 1
          THEN OuterExcept([s EXCEPT !.rf.faults = @ + 1], e)
          ELSE ParseAndOpen([s EXCEPT !.rf.last_exception = e,
                                      !.rf.faults = @ + 1],
                            s.rf.header_data, d)
     ELSE IF BufLen(hd) > HEADER_CAP
     THEN OuterExcept([s EXCEPT !.rf.header_data = hd],
            Exc("ValueError", "File header too large, possibly invalid data"))
     ELSE IF HasNewline(hd) THEN ParseAndOpen(s, hd, d)
     ELSE [s EXCEPT !.rf.header_data = hd]

\* one self.socket.recv(min(BUFFER_SIZE, file_size - received_bytes)) of the
\* payload loop and what follows it; the read returns d milliseconds after
\* the clock was last read
PayloadStep(s, o, d) ==
  LET e == IF o.kind = "eof"
           THEN Exc("ConnectionError", "Connection lost during transfer")
           ELSE RecvError
      data == Chunk(o).text
      received == s.rf.received_bytes + Len(data)
      fire == Due(s.rf.since + d)
      t == [s EXCEPT !.fs = AppendFile(@, s.rf.save_path, data),
                     !.rf.received_bytes = received,
                     !.rf.got = @ \o data,
                     !.rf.put = @ \o data,
                     !.rf.progress =
                        IF fire
                        THEN Append(@, Percent(received, s.rf.file_size))
                        ELSE @,
                     !.rf.gaps = IF fire THEN Append(@, Called(s.rf, d)) ELSE @,
                     !.rf.fired = fire \/ @,
                     !.rf.since = IF fire THEN 0 ELSE @ + d,
                     !.rf.idle = IF fire THEN 0 ELSE @ + d]
  IN IF o.kind = "data"
     THEN IF received >= s.rf.file_size THEN Complete(t) ELSE t
     ELSE IF s.rf.attempt < MAX_RETRIES - 1
     THEN NextAttempt([s EXCEPT !.rf.last_exception = e,
                                !.rf.sleeps = @ + 1,
                                !.rf.faults = @ + 1,
                                !.rf.drop = Len(s.fs[s.rf.save_path])])
     ELSE IF o.kind = "eof"
     THEN NextAttempt([s EXCEPT !.rf.faults = @ + 1, !.rf.short = TRUE])
     ELSE OuterExcept([s EXCEPT !.rf.faults = @ + 1], e)

\* receive_file without the test of self.connected
ReceiveFile_Unchecked ==
  /\ impl \in Clients
  /\ rf.pc = "idle"
  /\ \E path \in SavePaths :
       rf' = IF FALSE
             THEN [IdleFrame EXCEPT
                     !.pc = "done", !.save_path = path,
                     !.hist0 = Len(download_history),
                     !.outcome = Raise(Exc("ConnectionError",
                                           "Not connected to server"))]
             ELSE [IdleFrame EXCEPT
                     !.pc = IF impl = "new" THEN "loop" ELSE "header",
                     !.save_path = path,
                     !.started = TRUE,
                     !.conn0 = socket.conn,
                     !.hist0 = Len(download_history)]
  /\ UNCHANGED <<impl, served, connected, socket, download_history, fs,
                 conns, gui_ops>>
  /\ UNCHANGED senderVars
  /\ UNCHANGED sessionVars

\* the call itself (one call is followed from its start to its end):
\* if not self.connected: raise ConnectionError(...)
ReceiveFile ==
  /\ impl \in Clients
  /\ rf.pc = "idle"
  /\ \E path \in SavePaths :
       rf' = IF ~connected
             THEN [IdleFrame EXCEPT
                     !.pc = "done", !.save_path = path,
                     !.hist0 = Len(download_history),
                     !.outcome = Raise(Exc("ConnectionError",
                                           "Not connected to server"))]
             ELSE [IdleFrame EXCEPT
                     !.pc = IF impl = "new" THEN "loop" ELSE "header",
                     !.save_path = path,
                     !.started = TRUE,
                     !.conn0 = socket.conn,
                     !.hist0 = Len(download_history)]
  /\ UNCHANGED <<impl, served, connected, socket, download_history, fs,
                 conns, gui_ops>>
  /\ UNCHANGED senderVars
  /\ UNCHANGED sessionVars

\* for attempt in range(MAX_RETRIES): ... and the code after the loop
N_Loop ==
  /\ impl = "new" /\ rf.pc = "loop"
  /\ LET s == St(rf, fs, download_history)
         t == IF rf.attempt < MAX_RETRIES
              THEN IF rf.attempt > 0 THEN [s EXCEPT !.rf.pc = "args"]
                   ELSE [s EXCEPT !.rf.pc = "header",
                                  !.rf.header_data = EmptyBuf]
              ELSE AfterLoop(s)
     IN /\ rf' = t.rf
        /\ download_history' = t.dh
  /\ UNCHANGED <<impl, served, connected, socket, fs, conns, gui_ops>>
  /\ UNCHANGED senderVars
  /\ UNCHANGED sessionVars

\* the arguments of the reconnect: self.socket.getsockname()[0] and [1].
\* A closed socket raises OSError; a socket that was never connected gives
\* ('0.0.0.0', 0) or raises, depending on the platform
N_Args ==
  /\ impl = "new" /\ rf.pc = "args"
  /\ LET s == St(rf, fs, download_history)
         good == [s EXCEPT !.rf.args = socket.local, !.rf.pc = "connect"]
         bad == OuterExcept(s, IF socket.state = "closed"
                               THEN Exc("OSError", "Bad file descriptor")
                               ELSE Exc("OSError", "Invalid argument"))
     IN \E t \in (CASE socket.state = "open" -> {good}
                    [] socket.state = "closed" -> {bad}
                    [] OTHER -> {good, bad}) :
          rf' = t.rf
  /\ UNCHANGED <<impl, served, connected, socket, download_history, fs,
                 conns, gui_ops>>
  /\ UNCHANGED senderVars
  /\ UNCHANGED sessionVars

\* if not self.connect(host, port): continue
N_Connect ==
  /\ impl = "new" /\ rf.pc = "connect"
  /\ \E ok \in DialAnswers(rf.args), kind \in Offered(FALSE) :
       LET r == Connect(rf.args, ok, kind)
           s == St(rf, fs, download_history)
       IN /\ connected' = r.connected
          /\ socket' = r.socket
          /\ conns' = r.conns
          /\ rf' = IF r.ret
                   THEN [rf EXCEPT !.pc = "header", !.header_data = EmptyBuf]
                   ELSE NextAttempt(s).rf
  /\ UNCHANGED <<impl, served, download_history, fs, gui_ops>>
  /\ UNCHANGED senderVars
  /\ UNCHANGED sessionVars

N_HeaderRecv ==
  /\ impl = "new" /\ rf.pc = "header"
  /\ \E o \in RecvOutcomes(BUFFER_SIZE), d \in OpenDelays :
       LET t == HeaderStep(St(rf, fs, download_history), o, d)
       IN /\ rf' = t.rf
          /\ fs' = t.fs
          /\ download_history' = t.dh
          /\ socket' = AfterRecv(o)
  /\ UNCHANGED <<impl, served, connected, conns, gui_ops>>
  /\ UNCHANGED senderVars
  /\ UNCHANGED sessionVars

N_PayloadRecv ==
  /\ impl = "new" /\ rf.pc = "payload"
  /\ \E o \in RecvOutcomes(Min(BUFFER_SIZE,
                               rf.file_size - rf.received_bytes)),
        d \in RecvDelays :
       LET t == PayloadStep(St(rf, fs, download_history), o, d)
       IN /\ rf' = t.rf
          /\ fs' = t.fs
          /\ download_history' = t.dh
          /\ socket' = AfterRecv(o)
  /\ UNCHANGED <<impl, served, connected, conns, gui_ops>>
  /\ UNCHANGED senderVars
  /\ UNCHANGED sessionVars

\* ----------------------------------------- receive_file of flet_client.py
\* except Exception as e: record the failure and raise
F_Except(s, e) ==
  [s EXCEPT !.dh = Append(@, DownloadRecord(s.rf.save_path, UNKNOWN, 0,
                                            StatusFailed(e))),
            !.rf.outcome = Raise(e),
            !.rf.pc = "done"]

\* after the payload loop: final callback, record, return True
F_Finish(s) ==
  [s EXCEPT !.rf.progress = Append(@, 100),
            !.dh = Append(@, DownloadRecord(s.rf.save_path, s.rf.file_name,
                       s.rf.file_size,
                       IF s.rf.received_bytes >= s.rf.file_size
                       THEN StatusComplete
                       ELSE StatusIncomplete(s.rf.received_bytes,
                                             s.rf.file_size))),
            !.rf.outcome = Return(TRUE),
            !.rf.pc = "done"]

F_ParseAndOpen(s, hd, d) ==
  LET h == DecodeHeader(hd, 2)
      data == h.remaining_data.text
      t == [s EXCEPT !.fs = WriteFile(@, s.rf.save_path, data),
                     !.rf.header_data = hd,
                     !.rf.file_name = h.file_name,
                     !.rf.file_size = h.file_size,
                     !.rf.received_bytes = BufLen(h.remaining_data),
                     !.rf.file_mode = "wb",
                     !.rf.got = data,
                     !.rf.put = data]
  IN IF ~h.ok
     THEN F_Except([s EXCEPT !.rf.header_data = hd],
                   Exc("ValueError", "bad header fields"))
     ELSE IF t.rf.received_bytes < t.rf.file_size
     THEN [t EXCEPT !.rf.pc = "payload", !.rf.since = d,
                    !.rf.open_delay = d, !.rf.idle = 0, !.rf.fired = FALSE]
     ELSE F_Finish(t)

F_HeaderStep(s, o, d) ==
  LET hd == BufCat(s.rf.header_data, Chunk(o))
  IN CASE o.kind = "eof" ->
            F_Except([s EXCEPT !.rf.faults = @ + 1],
                     Exc("ConnectionError",
                         "Connection closed before receiving file header"))
       [] o.kind = "error" ->
            F_Except([s EXCEPT !.rf.faults = @ + 1], RecvError)
       [] OTHER -> IF HasNewline(hd) THEN F_ParseAndOpen(s, hd, d)
                   ELSE [s EXCEPT !.rf.header_data = hd]

\* a read of the payload loop that returns d milliseconds after the clock
\* was last read; the callback takes c milliseconds, and the clock is read
\* again after it: last_progress_update = time.time()
F_PayloadStep(s, o, d, c) ==
  LET data == Chunk(o).text
      received == s.rf.received_bytes + Len(data)
      fire == Due(s.rf.since + d)
      t == [s EXCEPT !.fs = AppendFile(@, s.rf.save_path, data),
                     !.rf.received_bytes = received,
                     !.rf.got = @ \o data,
                     !.rf.put = @ \o data,
                     !.rf.progress =
                        IF fire
                        THEN Append(@, Percent(received, s.rf.file_size))
                        ELSE @,
                     !.rf.gaps = IF fire THEN Append(@, Called(s.rf, d)) ELSE @,
                     !.rf.fired = fire \/ @,
                     !.rf.since = IF fire THEN 0 ELSE @ + d,
                     !.rf.idle = IF fire THEN c ELSE @ + d]
  IN CASE o.kind = "eof" ->
            F_Finish([s EXCEPT !.rf.faults = @ + 1, !.rf.short = TRUE])
       [] o.kind = "error" ->
            F_Except([s EXCEPT !.rf.faults = @ + 1], RecvError)
       [] OTHER -> IF received >= s.rf.file_size THEN F_Finish(t) ELSE t

F_HeaderRecv ==
  /\ impl = "flet" /\ rf.pc = "header"
  /\ \E o \in RecvOutcomes(BUFFER_SIZE), d \in OpenDelays :
       LET t == F_HeaderStep(St(rf, fs, download_history), o, d)
       IN /\ rf' = t.rf
          /\ fs' = t.fs
          /\ download_history' = t.dh
          /\ socket' = AfterRecv(o)
  /\ UNCHANGED <<impl, served, connected, conns, gui_ops>>
  /\ UNCHANGED senderVars
  /\ UNCHANGED sessionVars

F_PayloadRecv ==
  /\ impl = "flet" /\ rf.pc = "payload"
  /\ \E o \in RecvOutcomes(Min(BUFFER_SIZE,
                               rf.file_size - rf.received_bytes)),
        d \in RecvDelays, c \in CallbackDelays :
       LET t == F_PayloadStep(St(rf, fs, download_history), o, d, c)
       IN /\ rf' = t.rf
          /\ fs' = t.fs
          /\ download_history' = t.dh
          /\ socket' = AfterRecv(o)
  /\ UNCHANGED <<impl, served, connected, conns, gui_ops>>
  /\ UNCHANGED senderVars
  /\ UNCHANGED sessionVars

\* ------------------------------------------------------------ socket writes
\* what a write of n bytes can do.  sendall(data): the transport takes all n
\* bytes, or sendall raises after the transport took k < n of them
SendAllOutcomes(n) ==
  {[kind |-> "full", n |-> n]}
    \cup {[kind |-> "error", n |-> k] : k \in {j \in {0, n - 1} : j < n}}
\* send(data): the transport takes all n bytes, or only the first k of them
\* (0 < k < n, and send returns k), or send raises having taken none
SendOutcomes(n) ==
  {[kind |-> "full", n |-> n], [kind |-> "error", n |-> 0]}
    \cup {[kind |-> "short", n |-> k] : k \in {j \in {1, n - 1} : 0 < j /\ j < n}}
WriteError == Exc("OSError", "Broken pipe")
PeerNameError == Exc("OSError", "Transport endpoint is not connected")

\* file.read(BUFFER_SIZE) at position pos
ReadChunk(pos) ==
  BufTake(BufDrop(file, pos), Min(BUFFER_SIZE, BufLen(file) - pos))

\* a step of a send call works on its frame and the history
SSt(f, th) == [sf |-> f, th |-> th]

TransferRecord(name, size, client, status) ==
  [file |-> name, size |-> size, client |-> client, status |-> status]

\* ---------------------------------------- send_file of file_server_new.py
\* except Exception as e: the record needs client_socket.getpeername(), which
\* raises (peer false) when the socket is closed or no longer connected
SendFileExcept(s, t, e, peer) ==
  IF peer
  THEN [s EXCEPT !.th = Append(@, TransferRecord(FileName, BufLen(file), t,
                                                 StatusFailed(e))),
                 !.sf.outcome = Return(FALSE),
                 !.sf.pc = "done"]
  ELSE [s EXCEPT !.sf.outcome = Raise(PeerNameError), !.sf.pc = "done"]

\* after the read loop: getpeername(), the record, return True
SendFileComplete(s, t, peer) ==
  IF peer
  THEN [s EXCEPT !.th = Append(@, TransferRecord(FileName, s.sf.file_size, t,
                                                 StatusComplete)),
                 !.sf.outcome = Return(TRUE),
                 !.sf.pc = "done"]
  ELSE SendFileExcept(s, t, PeerNameError, FALSE)

\* getsize, basename, and client_socket.sendall(header.encode() + b"\n")
SendFileHeader(s, t, w, peer) ==
  LET line == EncodeHeader2(FileName, BufLen(file))
      u == [s EXCEPT !.sf.file_size = BufLen(file),
                     !.sf.header_out = SubSeq(line, 1, w.n)]
  IN IF w.kind = "error"
     THEN SendFileExcept([u EXCEPT !.sf.failed = TRUE], t, WriteError, peer)
     ELSE [u EXCEPT !.sf.pc = "chunk"]

\* SendFileChunk going on after a write that raised
SendFileChunk_IgnoresError(s, t, w, peer) ==
  LET data == ReadChunk(s.sf.pos)
      sent == s.sf.sent_bytes + BufLen(data)
      u == [s EXCEPT !.sf.pos = @ + BufLen(data),
                     !.sf.out = BufCat(@, BufTake(data, w.n))]
  IN IF BufLen(data) = 0 THEN SendFileComplete(s, t, peer)
     ELSE [u EXCEPT !.sf.sent_bytes = sent,
                    !.sf.progress = Append(@, Percent(sent, s.sf.file_size))]

\* one turn of the read loop: read, sendall, count, progress callback
SendFileChunk(s, t, w, peer) ==
  LET data == ReadChunk(s.sf.pos)
      sent == s.sf.sent_bytes + BufLen(data)
      u == [s EXCEPT !.sf.pos = @ + BufLen(data),
                     !.sf.out = BufCat(@, BufTake(data, w.n))]
  IN IF BufLen(data) = 0 THEN SendFileComplete(s, t, peer)
     ELSE IF w.kind = "error"
     THEN SendFileExcept([u EXCEPT !.sf.failed = TRUE], t, WriteError, peer)
     ELSE [u EXCEPT !.sf.sent_bytes = sent,
                    !.sf.progress = Append(@, Percent(sent, s.sf.file_size))]

S_Header ==
  /\ impl = "file_server_new"
  /\ \E t \in SendTo :
       /\ sf[t].pc = "idle"
       /\ \E w \in SendAllOutcomes(Len(EncodeHeader2(FileName,
                                                     BufLen(file)))),
             peer \in BOOLEAN :
            LET u == SendFileHeader(SSt(sf[t], transfer_history), t, w, peer)
            IN /\ sf' = [sf EXCEPT ![t] = u.sf]
               /\ transfer_history' = u.th
  /\ UNCHANGED <<impl, served, file>>
  /\ UNCHANGED clientVars
  /\ UNCHANGED sessionVars

S_Chunk ==
  /\ impl = "file_server_new"
  /\ \E t \in Senders :
       /\ sf[t].pc = "chunk"
       /\ \E w \in SendAllOutcomes(Min(BUFFER_SIZE,
                                       BufLen(file) - sf[t].pos)),
             peer \in BOOLEAN :
            LET u == SendFileChunk(SSt(sf[t], transfer_history), t, w, peer)
            IN /\ sf' = [sf EXCEPT ![t] = u.sf]
               /\ transfer_history' = u.th
  /\ UNCHANGED <<impl, served, file>>
  /\ UNCHANGED clientVars
  /\ UNCHANGED sessionVars

\* -------------------------------------------- _send_file of flet_server.py
\* except Exception as e: record the failure, return False
FSendFileExcept(s, t, e) ==
  [s EXCEPT !.th = Append(@, TransferRecord(FileName, 0, t,
                                            StatusFailed(e))),
            !.sf.outcome = Return(FALSE),
            !.sf.pc = "done"]

\* after the loop: the record, return True
FSendFileFinish(s, t) ==
  [s EXCEPT !.th = Append(@, TransferRecord(FileName, s.sf.file_size, t,
                       IF s.sf.sent_bytes >= s.sf.file_size
                       THEN StatusComplete
                       ELSE StatusIncomplete(s.sf.sent_bytes,
                                             s.sf.file_size))),
            !.sf.outcome = Return(TRUE),
            !.sf.pc = "done"]

\* getsize, basename, and client_socket.send(header.encode())
FSendFileHeader(s, t, w) ==
  LET line == EncodeHeader2(FileName, BufLen(file))
      u == [s EXCEPT !.sf.file_size = BufLen(file),
                     !.sf.header_out = SubSeq(line, 1, w.n)]
  IN CASE w.kind = "error" ->
            FSendFileExcept([u EXCEPT !.sf.failed = TRUE], t, WriteError)
       [] w.kind = "short" -> [u EXCEPT !.sf.short = TRUE, !.sf.pc = "chunk"]
       [] OTHER -> [u EXCEPT !.sf.pc = "chunk"]

\* one turn of while sent_bytes < file_size: read, send, count
FSendFileChunk(s, t, w) ==
  LET data == ReadChunk(s.sf.pos)
      u == [s EXCEPT !.sf.pos = @ + BufLen(data),
                     !.sf.out = BufCat(@, BufTake(data, w.n))]
      v == [u EXCEPT !.sf.sent_bytes = @ + BufLen(data)]
  IN IF s.sf.sent_bytes >= s.sf.file_size \/ BufLen(data) = 0
     THEN FSendFileFinish(s, t)
     ELSE CASE w.kind = "error" ->
                 FSendFileExcept([u EXCEPT !.sf.failed = TRUE], t, WriteError)
            [] w.kind = "short" -> [v EXCEPT !.sf.short = TRUE]
            [] OTHER -> v

FS_Header ==
  /\ impl = "flet_server"
  /\ \E t \in SendTo :
       /\ sf[t].pc = "idle"
       /\ \E w \in SendOutcomes(Len(EncodeHeader2(FileName, BufLen(file)))) :
            LET u == FSendFileHeader(SSt(sf[t], transfer_history), t, w)
            IN /\ sf' = [sf EXCEPT ![t] = u.sf]
               /\ transfer_history' = u.th
  /\ UNCHANGED <<impl, served, file>>
  /\ UNCHANGED clientVars
  /\ UNCHANGED sessionVars

FS_Chunk ==
  /\ impl = "flet_server"
  /\ \E t \in Senders :
       /\ sf[t].pc = "chunk"
       /\ \E w \in SendOutcomes(Min(BUFFER_SIZE, BufLen(file) - sf[t].pos)) :
            LET u == FSendFileChunk(SSt(sf[t], transfer_history), t, w)
            IN /\ sf' = [sf EXCEPT ![t] = u.sf]
               /\ transfer_history' = u.th
  /\ UNCHANGED <<impl, served, file>>
  /\ UNCHANGED clientVars
  /\ UNCHANGED sessionVars

\* --------------------------------------------------------- specification
Next ==
  \/ GuiConnect
  \/ GuiDisconnect
  \/ ReceiveFile
  \/ N_Loop
  \/ N_Args
  \/ N_Connect
  \/ N_HeaderRecv
  \/ N_PayloadRecv
  \/ F_HeaderRecv
  \/ F_PayloadRecv
  \/ S_Header
  \/ S_Chunk
  \/ FS_Header
  \/ FS_Chunk

Spec == Init /\ [][Next]_vars

\* file_client_new alone
InitNew == Init /\ impl = "new"
NextNew ==
  \/ GuiConnect
  \/ GuiDisconnect
  \/ ReceiveFile
  \/ N_Loop
  \/ N_Args
  \/ N_Connect
  \/ N_HeaderRecv
  \/ N_PayloadRecv

\* the thread that runs receive_file keeps running: its connects, sleeps and
\* reads return.  This is weak fairness of each of its steps; for the header
\* read, WF_vars(N_HeaderRecv) is written out with ENABLED N_HeaderRecv as
\* the state predicate it amounts to (the read is possible whenever the
\* thread is in the header loop)
N_Between == N_Loop \/ N_Args \/ N_Connect \/ N_PayloadRecv
InHeaderLoop == impl = "new" /\ rf.pc = "header"
ThreadRuns ==
  /\ WF_vars(N_Between)
  /\ []<>(~InHeaderLoop) \/ []<><<N_HeaderRecv>>_vars
FairSpec == InitNew /\ [][NextNew]_vars /\ ThreadRuns

\* clear_download_history of the presentation layer (file_client_new.py),
\* answered Yes: self.file_client.download_history = []
ClearDownloadHistory ==
  /\ impl = "new"
  /\ gui_ops < MaxGuiOps /\ UserMayClick
  /\ download_history' = <<>>
  /\ gui_ops' = gui_ops + 1
  /\ UNCHANGED <<impl, served, connected, socket, fs, rf, conns>>
  /\ UNCHANGED senderVars
  /\ UNCHANGED sessionVars

\* the record of an earlier receive_file call whose header read met b''
EarlierRecord ==
  DownloadRecord(Path("out", <<>>), UNKNOWN, 0,
                 StatusFailed(Exc("ConnectionError",
                          "Connection closed before receiving file header")))
\* a client that made that call and was then disconnected
ClosedSocket == [state |-> "closed", local |-> CLIENT, peer |-> SERVER,
                 wire |-> EmptyBuf, kind |-> "", conn |-> 0]

\* the programs, a client after a call that failed before the header arrived
InitH ==
  /\ impl \in Clients \cup Servers
  /\ served \in 0..MaxSize
  /\ file \in IF impl \in Servers THEN ServedFiles ELSE {EmptyBuf}
  /\ transfer_history = <<>>
  /\ sf = [t \in Senders |-> IdleSend]
  /\ connected = FALSE
  /\ IF impl \in Clients
     THEN download_history = <<EarlierRecord>> /\ socket = ClosedSocket
     ELSE download_history = <<>> /\ socket = NoSocket
  /\ fs = <<>>
  /\ rf = IdleFrame
  /\ conns = 0
  /\ gui_ops = 0
  /\ ui = IdleUi
  /\ srv = IdleServer

NextH ==
  \/ GuiConnect
  \/ GuiDisconnect
  \/ ClearDownloadHistory
  \/ ReceiveFile
  \/ N_Loop
  \/ N_Args
  \/ N_Connect
  \/ N_HeaderRecv
  \/ N_PayloadRecv
  \/ F_HeaderRecv
  \/ F_PayloadRecv
  \/ S_Header
  \/ S_Chunk
  \/ FS_Header
  \/ FS_Chunk

HistorySpec == InitH /\ [][NextH]_vars

\* file_client_new with files already at the paths a call may write
OldFile == <<"o">>
OldDisk == [p \in {Path("out", <<>>), Path("out", ServedExt),
                   Path("out", <<".", "y">>)} |-> OldFile]
InitD ==
  /\ impl = "new"
  /\ served \in 0..MaxSize
  /\ file = EmptyBuf
  /\ transfer_history = <<>>
  /\ sf = [t \in Senders |-> IdleSend]
  /\ connected = FALSE
  /\ socket = NoSocket
  /\ download_history = <<>>
  /\ fs = OldDisk
  /\ rf = IdleFrame
  /\ conns = 0
  /\ gui_ops = 0
  /\ ui = IdleUi
  /\ srv = IdleServer
DiskSpec == InitD /\ [][NextNew]_vars

\* ------------------------------------------ ClientGUI: Receive and Cancel
\* The progress window of a call is modal (grab_set) until it is destroyed;
\* its Cancel button destroys it and leaves the thread of the call running.
ProgressWindowOpen == rf.started /\ ~ui.cancelled

\* the Cancel button of the progress window: progress_window.destroy()
GuiCancel ==
  /\ impl = "new"
  /\ ProgressWindowOpen
  /\ ui' = [ui EXCEPT !.cancelled = TRUE]
  /\ UNCHANGED srv
  /\ UNCHANGED <<impl, served>>
  /\ UNCHANGED clientVars
  /\ UNCHANGED senderVars

\* ClientGUI.receive_file clicked once more: no modal window holds the grab,
\* the client is connected, and a second thread is started on receive_file
GuiReceiveAgain ==
  /\ impl = "new"
  /\ rf.started /\ ~ProgressWindowOpen
  /\ connected
  /\ ui.second = "none"
  /\ ui' = [ui EXCEPT !.second = "header"]
  /\ UNCHANGED srv
  /\ UNCHANGED <<impl, served>>
  /\ UNCHANGED clientVars
  /\ UNCHANGED senderVars

\* the second call up to the first recv of its header loop, on self.socket;
\* it is followed no further
R2_HeaderRecv ==
  /\ impl = "new"
  /\ ui.second = "header"
  /\ \E o \in RecvOutcomes(BUFFER_SIZE) :
       /\ socket' = AfterRecv(o)
       /\ ui' = [ui EXCEPT !.second = IF o.kind = "data" THEN "read"
                                      ELSE "failed"]
  /\ UNCHANGED srv
  /\ UNCHANGED <<impl, served, connected, download_history, fs, rf, conns,
                 gui_ops>>
  /\ UNCHANGED senderVars

NextSession ==
  \/ GuiConnect
  \/ ReceiveFile
  \/ N_Loop
  \/ N_Args
  \/ N_Connect
  \/ N_HeaderRecv
  \/ N_PayloadRecv
  \/ GuiCancel
  \/ GuiReceiveAgain
  \/ R2_HeaderRecv
SessionSpec == InitNew /\ [][NextSession]_vars

\* --------------------------------------------- the servers and their threads
\* The presentation layer runs one handler at a time (main); the accept loop
\* and, in flet_server, one handler per client run in threads of their own.
\* No lock is taken anywhere in either server.  srv.accept is the accept
\* loop started by the last start, srv.prev the one started by the start
\* before it, when that thread had not ended.
IsNewServer == impl = "file_server_new"
Clicks == srv.ops < MaxClicks /\ srv.main.pc = "idle"
Threads == {"accept", "prev"}
Ended(th) == srv[th].pc \in {"none", "ended"}

\* the client the next accept() returns: clients connect in the order 1, 2, ..
Arriving == {c \in Senders : /\ srv.sock[c] = "none"
                             /\ \A b \in 1..(c - 1) : srv.sock[b] # "none"}

\* list.remove(x) and x in list
RECURSIVE Remove(_, _)
Remove(l, x) == IF l = <<>> THEN <<>>
                ELSE IF Head(l) = x THEN Tail(l)
                ELSE <<Head(l)>> \o Remove(Tail(l), x)
Contains(l, x) == \E i \in 1..Len(l) : l[i] = x

\* FileServer.start of file_server_new: False at once on a server that runs;
\* otherwise a new socket is bound and listens (bind is taken to succeed),
\* and a new accept loop is started in a thread.  start of flet_server has no
\* test; its caller toggle_server tests running and starts the thread
Start(s) ==
  IF s.is_running THEN s
  ELSE [s EXCEPT !.is_running = TRUE,
                 !.server_socket = "listening",
                 !.run = @ + 1,
                 !.prev = IF s.accept.pc \in {"none", "ended"} THEN @
                          ELSE s.accept,
                 !.accept = [pc |-> "loop", client |-> 0, run |-> 0]]

\* toggle_server while stopped (at most two accept loops are followed: the
\* one of the run before the last has ended)
SrvStart ==
  /\ impl \in Servers
  /\ Clicks
  /\ ~srv.is_running
  /\ Ended("prev") \/ Ended("accept")
  /\ srv' = [Start(srv) EXCEPT !.ops = @ + 1]
  /\ UNCHANGED <<impl, served, ui>>
  /\ UNCHANGED clientVars
  /\ UNCHANGED senderVars

\* toggle_server while running: FileServer.stop up to its for loop over the
\* list of clients; flet_server closes the server socket before the loop
SrvStop ==
  /\ impl \in Servers
  /\ Clicks
  /\ srv.is_running
  /\ srv' = [srv EXCEPT !.is_running = FALSE,
                        !.server_socket = IF IsNewServer THEN @ ELSE "closed",
                        !.main = [pc |-> "stop", i |-> 1],
                        !.ops = @ + 1]
  /\ UNCHANGED <<impl, served, ui>>
  /\ UNCHANGED clientVars
  /\ UNCHANGED senderVars

\* one iteration of the for loop of stop, which closes a client socket, or
\* the statements after the loop: file_server_new closes the server socket,
\* both assign a new empty list, and the UI of flet_server clears the
\* selected file
SrvStopStep ==
  /\ impl \in Servers
  /\ srv.main.pc = "stop"
  /\ srv' = IF srv.main.i <= Len(srv.connected_clients)
            THEN [srv EXCEPT
                    !.sock[srv.connected_clients[srv.main.i]] = "closed",
                    !.main.i = @ + 1]
            ELSE [srv EXCEPT
                    !.server_socket = "closed",
                    !.connected_clients = <<>>,
                    !.selected_file = IF IsNewServer THEN @ ELSE FALSE,
                    !.main = [pc |-> "idle", i |-> 0]]
  /\ UNCHANGED <<impl, served, ui>>
  /\ UNCHANGED clientVars
  /\ UNCHANGED senderVars

\* select_file (the button is enabled while the server runs): the file is
\* recorded; file_server_new then enters its for loop over the clients
SrvSelect ==
  /\ impl \in Servers
  /\ Clicks
  /\ srv.is_running
  /\ srv' = [srv EXCEPT !.selected_file = TRUE,
                        !.selects = @ + 1,
                        !.main = IF IsNewServer
                                 THEN [pc |-> "select", i |-> 1] ELSE @,
                        !.ops = @ + 1]
  /\ UNCHANGED <<impl, served, ui>>
  /\ UNCHANGED clientVars
  /\ UNCHANGED senderVars

\* handle_client of file_server_new: a thread is started that runs send_file
\* on the client socket
HandleClient(s, c) == [s EXCEPT !.sends[c] = @ + 1, !.active[c] = @ + 1]

\* one iteration of the for loop of select_file of file_server_new
SrvSelectStep ==
  /\ IsNewServer
  /\ srv.main.pc = "select"
  /\ srv' = IF srv.main.i <= Len(srv.connected_clients)
            THEN [HandleClient(srv, srv.connected_clients[srv.main.i])
                    EXCEPT !.main.i = @ + 1]
            ELSE [srv EXCEPT !.main = [pc |-> "idle", i |-> 0]]
  /\ UNCHANGED <<impl, served, ui>>
  /\ UNCHANGED clientVars
  /\ UNCHANGED senderVars

\* a send thread of file_server_new ends: send_file has returned
SendEnds(c) ==
  /\ IsNewServer
  /\ srv.active[c] > 0
  /\ srv' = [srv EXCEPT !.active[c] = @ - 1]
  /\ UNCHANGED <<impl, served, ui>>
  /\ UNCHANGED clientVars
  /\ UNCHANGED senderVars

\* the test of the while loop of an accept loop; the thread that goes on
\* calls accept() on the socket self.server_socket names at that time
A_Loop(th) ==
  /\ impl \in Servers
  /\ srv[th].pc = "loop"
  /\ srv' = [srv EXCEPT
               ![th].pc = IF srv.is_running THEN "accept" ELSE "ended",
               ![th].run = IF srv.is_running THEN srv.run ELSE @]
  /\ UNCHANGED <<impl, served, ui>>
  /\ UNCHANGED clientVars
  /\ UNCHANGED senderVars

\* accept() on the socket of run srv[th].run: returns the socket of the next
\* client, or raises once that socket is closed, which the except branch
\* answers with break
A_Accept(th) ==
  /\ impl \in Servers
  /\ srv[th].pc = "accept"
  /\ \/ /\ srv.server_socket = "listening" /\ srv[th].run = srv.run
        /\ \E c \in Arriving :
             srv' = [srv EXCEPT ![th].pc = "append", ![th].client = c,
                                !.sock[c] = "open"]
     \/ /\ srv.server_socket # "listening" \/ srv[th].run # srv.run
        /\ srv' = [srv EXCEPT ![th].pc = "ended"]
  /\ UNCHANGED <<impl, served, ui>>
  /\ UNCHANGED clientVars
  /\ UNCHANGED senderVars

\* the append of the accept loop; flet_server then starts the thread of
\* _handle_client and goes back to the test of its loop
A_Append(th) ==
  /\ impl \in Servers
  /\ srv[th].pc = "append"
  /\ srv' = [srv EXCEPT
               !.connected_clients = Append(@, srv[th].client),
               !.handler[srv[th].client] =
                  IF IsNewServer THEN @ ELSE "notify",
               ![th].pc = IF IsNewServer THEN "callback" ELSE "loop"]
  /\ UNCHANGED <<impl, served, ui>>
  /\ UNCHANGED clientVars
  /\ UNCHANGED senderVars

\* ServerGUI.on_client_connected, called by the accept loop: with a file
\* selected it walks the list and calls getpeername() on each socket up to
\* the one of the new client. Scan is what the walk meets first: a socket
\* whose getpeername() raises (closed, or reset by its peer), the socket of
\* the new client, or the end of the list.
Scan(l, c) ==
  LET hits == {j \in 1..Len(l) : srv.sock[l[j]] # "open" \/ l[j] = c}
  IN  IF hits = {} THEN "none"
      ELSE LET j == CHOOSE k \in hits : \A m \in hits : k <= m
           IN  IF srv.sock[l[j]] # "open" THEN "raise" ELSE "match"

\* the callback in the try block of _listen_for_clients, in thread th: an
\* exception it raises reaches the except branch of the accept loop, which
\* ends in break
Callback(th) ==
  LET c == srv[th].client
  IN  IF ~srv.selected_file THEN [srv EXCEPT ![th].pc = "loop"]
      ELSE CASE Scan(srv.connected_clients, c) = "raise" ->
                  [srv EXCEPT ![th].pc = "ended"]
             [] Scan(srv.connected_clients, c) = "match" ->
                  [HandleClient(srv, c) EXCEPT ![th].pc = "loop"]
             [] OTHER -> [srv EXCEPT ![th].pc = "loop"]

A_Callback(th) ==
  /\ IsNewServer
  /\ srv[th].pc = "callback"
  /\ srv' = Callback(th)
  /\ UNCHANGED <<impl, served, ui>>
  /\ UNCHANGED clientVars
  /\ UNCHANGED senderVars

\* _handle_client of flet_server before its try block: the callback it was
\* given is called, and an exception of the callback ends the thread
H_Notify(c) ==
  /\ impl = "flet_server"
  /\ srv.handler[c] = "notify"
  /\ \E raises \in BOOLEAN :
       srv' = [srv EXCEPT !.handler[c] = IF raises THEN "died" ELSE "wait"]
  /\ UNCHANGED <<impl, served, ui>>
  /\ UNCHANGED clientVars
  /\ UNCHANGED senderVars

\* _handle_client of flet_server in its while loop: it leaves the loop when
\* the server stops, sends the file once one is selected (an exception of
\* the send is passed over), and sleeps otherwise
H_Poll(c) ==
  /\ impl = "flet_server"
  /\ srv.handler[c] = "wait"
  /\ ~srv.is_running \/ srv.selected_file
  /\ srv' = [srv EXCEPT
               !.sends[c] = IF srv.is_running THEN @ + 1 ELSE @,
               !.handler[c] = "finally"]
  /\ UNCHANGED <<impl, served, ui>>
  /\ UNCHANGED clientVars
  /\ UNCHANGED senderVars

\* the finally block of _handle_client: the test client_socket in
\* self.clients; when it fails the socket is closed and the thread ends
H_Finally(c) ==
  /\ impl = "flet_server"
  /\ srv.handler[c] = "finally"
  /\ srv' = IF Contains(srv.connected_clients, c)
            THEN [srv EXCEPT !.handler[c] = "remove"]
            ELSE [srv EXCEPT !.sock[c] = "closed", !.handler[c] = "done"]
  /\ UNCHANGED <<impl, served, ui>>
  /\ UNCHANGED clientVars
  /\ UNCHANGED senderVars

\* self.clients.remove(client_socket) on the list self.clients names now:
\* ValueError when the socket is not in it, which ends the thread before the
\* close; otherwise the socket is removed and closed
H_Remove(c) ==
  /\ impl = "flet_server"
  /\ srv.handler[c] = "remove"
  /\ srv' = IF Contains(srv.connected_clients, c)
            THEN [srv EXCEPT !.connected_clients = Remove(@, c),
                             !.sock[c] = "closed",
                             !.handler[c] = "done"]
            ELSE [srv EXCEPT !.handler[c] = "died"]
  /\ UNCHANGED <<impl, served, ui>>
  /\ UNCHANGED clientVars
  /\ UNCHANGED senderVars

\* the peer of an accepted socket dies: the connection is reset
PeerReset(c) ==
  /\ impl \in Servers
  /\ srv.sock[c] = "open"
  /\ srv' = [srv EXCEPT !.sock[c] = "reset"]
  /\ UNCHANGED <<impl, served, ui>>
  /\ UNCHANGED clientVars
  /\ UNCHANGED senderVars

InitServer == Init /\ impl \in Servers /\ served = 0 /\ file = EmptyBuf
NextServer ==
  \/ SrvStart
  \/ SrvStop
  \/ SrvStopStep
  \/ SrvSelect
  \/ SrvSelectStep
  \/ \E c \in Senders : SendEnds(c)
  \/ \E th \in Threads : A_Loop(th)
  \/ \E th \in Threads : A_Accept(th)
  \/ \E th \in Threads : A_Append(th)
  \/ \E th \in Threads : A_Callback(th)
  \/ \E c \in Senders : H_Notify(c)
  \/ \E c \in Senders : H_Poll(c)
  \/ \E c \in Senders : H_Finally(c)
  \/ \E c \in Senders : H_Remove(c)
  \/ \E c \in Senders : PeerReset(c)
ServerSpec == InitServer /\ [][NextServer]_vars

\* every thread that can take a step takes one: the loops of stop and of
\* select_file in the thread of the presentation layer, the statements of an
\* accept loop other than the wait in accept(), a send thread, the handler
\* threads.  Clicks, arriving clients and dying peers are not forced.
ServerThreadsRun ==
  /\ WF_vars(SrvStopStep)
  /\ WF_vars(SrvSelectStep)
  /\ \A th \in Threads :
       WF_vars(A_Loop(th) \/ A_Append(th) \/ A_Callback(th))
  /\ \A c \in Senders :
       WF_vars(SendEnds(c) \/ H_Notify(c) \/ H_Poll(c) \/ H_Finally(c)
                 \/ H_Remove(c))
FairServerSpec == InitServer /\ [][NextServer]_vars /\ ServerThreadsRun

TypeOK ==
  /\ impl \in Clients \cup Servers
  /\ served \in 0..MaxSize
  /\ connected \in BOOLEAN
  /\ rf.pc \in {"idle", "loop", "args", "connect", "header", "payload", "done"}
  /\ rf.attempt \in 0..MAX_RETRIES

\* ------------------------------------------------------------ properties
Done == rf.pc = "done" /\ rf.started
OneRecord == Len(download_history) = rf.hist0 + 1
LastRecord == download_history[Len(download_history)]
Succeeded == Done /\ rf.outcome = Return(TRUE)

\* the header line each client understands, as a peer serving the file sends it
ValidKind == IF impl = "new" THEN "three" ELSE "two"
ValidHeader == IF impl = "new"
               THEN EncodeHeader3(ServedName, served, ServedExt)
               ELSE EncodeHeader2(ServedName, served)
GotHeader(line) ==
  /\ rf.header_data.pad = 0
  /\ HasNewline(rf.header_data)
  /\ SubSeq(rf.header_data.text, 1, FindNewline(rf.header_data.text)) = line
\* the call read from the connection it started on, which is still up, and
\* no read failed
NoFault == /\ Done /\ rf.faults = 0
           /\ socket.conn = rf.conn0 /\ socket.state = "open"

\* C1: when an attempt of file_client_new's receive_file is dropped after k
\* of the N payload bytes (0 < k < N) with a retry left, the resumed attempt
\* writes from offset k and a successful call leaves exactly the N bytes of
\* the file on disk.
C1_ResumeExact ==
  (impl = "new" /\ Succeeded /\ rf.drop > 0 /\ rf.drop < served)
    => /\ rf.offset = rf.drop
       /\ fs[rf.save_path] = Payload(served)

\* C2: a retry attempt of file_client_new's receive_file is not skipped: its
\* reconnect opens a new connection and the attempt goes on to read a header.
C2_RetryReadsHeader ==
  [][(impl = "new" /\ rf.pc = "connect" /\ rf'.pc # "connect")
       => /\ rf'.pc = "header"
          /\ rf'.attempt = rf.attempt
          /\ socket'.state = "open"
          /\ socket'.conn > socket.conn]_vars

\* C3: the (host, port) a retry passes to connect is the server endpoint the
\* original connect dialed.
C3_SameEndpoint == (impl = "new" /\ rf.pc = "connect") => rf.args = SERVER

\* C4: every receive_file call on a connected client appends exactly one
\* record to download_history, whatever its outcome.
C4_OneRecordPerCall == Done => OneRecord

\* C5: when file_client_new's receive_file ends by raising, it raises the last
\* error of the call and the record it appended has status 'Failed: ' followed
\* by the text of that error.
C5_FailureRecorded ==
  (impl = "new" /\ Done /\ rf.outcome.kind = "raise")
    => /\ rf.outcome.exc = rf.last_exception
       /\ OneRecord
       /\ LastRecord.status = StatusFailed(rf.outcome.exc)

\* C6: a malformed or oversized header ends file_client_new's receive_file on
\* that attempt: no delay is slept and no further attempt is made.
C6_FramingNotRetried ==
  [][(/\ impl = "new" /\ rf.pc = "header"
      /\ rf'.last_exception.type = "ValueError"
      /\ rf'.pc \in {"loop", "done"}
      /\ rf'.outcome.kind # "return")
       => /\ rf'.pc = "done"
          /\ rf'.outcome.kind = "raise"
          /\ rf'.sleeps = rf.sleeps]_vars

\* C7: a receive_file call that reads a valid header of size N and then the N
\* payload bytes, with no failed read, returns True, makes a last progress
\* callback of exactly 100 and appends a 'Complete' record; for every N >= 0
\* and every way the bytes are split into reads.
CleanTransfer == NoFault /\ socket.kind = ValidKind /\ GotHeader(ValidHeader)
C7_CleanTransferCompletes ==
  CleanTransfer
    => /\ rf.outcome = Return(TRUE)
       /\ rf.progress # <<>>
       /\ rf.progress[Len(rf.progress)] = 100
       /\ OneRecord
       /\ LastRecord.status = StatusComplete
C7_Witness ==
  /\ CleanTransfer
  /\ served > 0
  /\ Len(rf.progress) >= 2
  /\ Len(rf.header_data.text) < Len(ValidHeader) + served

\* C8: when a sender of this repository sends the file (header 'name|size',
\* then size bytes), each receiver ends with a file of exactly those bytes and
\* a record with that name, that size and status 'Complete'.
C8_EndToEnd ==
  (NoFault /\ socket.kind = "two"
     /\ GotHeader(EncodeHeader2(ServedName, served)))
    => /\ Exists(fs, rf.save_path)
       /\ fs[rf.save_path] = Payload(served)
       /\ OneRecord
       /\ LastRecord.original_name = ServedName
       /\ LastRecord.size = served
       /\ LastRecord.status = StatusComplete

\* C9: when a payload read returns b'' before the declared size is reached and
\* no retry is left, receive_file raises a premature-close error and the record
\* it appends is not 'Complete'.
C9_PrematureCloseFails ==
  (Done /\ rf.short)
    => /\ rf.outcome.kind = "raise"
       /\ rf.outcome.exc.type = "ConnectionError"
       /\ OneRecord
       /\ LastRecord.status.kind # "Complete"

\* C10: on every attempt, the payload bytes that arrived in the read that
\* completed the header are written to the destination first and counted
\* once: the bytes counted in received_bytes are the bytes written.
C10_LeftoverWrittenAndCounted ==
  (rf.pc = "payload" \/ Succeeded)
    => /\ rf.received_bytes = Len(rf.put)
       /\ rf.put = rf.got
       /\ SubSeq(fs[rf.save_path], rf.offset + 1, Len(fs[rf.save_path]))
            = rf.put

\* the fields the running client unpacks the header line into
ExpectedFields == IF impl = "new" THEN 3 ELSE 2
\* the line does not split into that many fields, or its size is no number
MalformedLine(hd) ==
  LET fields == Split(HeaderLine(hd).text)
  IN Len(fields) # ExpectedFields \/ ~IsIntText(fields[2])
\* the records the call has appended
NewRecords == {download_history[i] :
                 i \in (rf.hist0 + 1)..Len(download_history)}

\* C11: when the header line a receive_file attempt has read does not split on
\* '|' into the fields the client unpacks, or its size field is not a decimal
\* integer, the parse fails with ValueError on that step: the payload loop is
\* not entered, the destination is not touched and no 'Complete' record is
\* appended.
C11_MalformedHeaderFails ==
  [][(/\ rf.pc = "header"
      /\ HasNewline(rf'.header_data)
      /\ MalformedLine(rf'.header_data))
       => /\ rf'.pc # "payload"
          /\ rf'.outcome.kind # "return"
          /\ fs' = fs
          /\ IF impl = "new"
             THEN rf'.last_exception
                    = Exc("ValueError", "Invalid file header format")
             ELSE /\ rf'.outcome.kind = "raise"
                  /\ rf'.outcome.exc.type = "ValueError"
          /\ \A i \in (Len(download_history) + 1)..Len(download_history') :
               download_history'[i].status.kind # "Complete"]_vars
C11_Witness ==
  /\ Done
  /\ socket.kind = "notnumber"
  /\ HasNewline(rf.header_data)
  /\ MalformedLine(rf.header_data)
  /\ rf.outcome.kind = "raise"
  /\ rf.outcome.exc.type = "ValueError"

\* C12: a header whose size field is a negative integer is rejected: a
\* receive_file call that has parsed a negative size never makes a progress
\* callback of 100 and never appends a 'Complete' record.
C12_NegativeSizeRejected ==
  (rf.started /\ rf.file_size < 0)
    => /\ \A i \in 1..Len(rf.progress) : rf.progress[i] # 100
       /\ \A r \in NewRecords : r.status.kind # "Complete"
       /\ rf.outcome # Return(TRUE)

\* C13: in either client the header loop of receive_file never goes on
\* reading with a buffer of more than 1,024,000 bytes: the read that takes the
\* buffer past that length ends the loop with an error.
C13_HeaderBufferCapped ==
  (rf.started /\ rf.pc = "header") => BufLen(rf.header_data) <= HEADER_CAP

\* C14: for a header of size 0, receive_file makes no payload read and no
\* division by the size (the payload loop is never entered with size 0), its
\* last progress callback is 100, and it appends a 'Complete' record and
\* returns True.
ParsedZero ==
  /\ rf.started
  /\ HasNewline(rf.header_data)
  /\ ~MalformedLine(rf.header_data)
  /\ IntVal(Split(HeaderLine(rf.header_data).text)[2]) = 0
C14_ZeroSizeCompletes ==
  /\ rf.pc = "payload" => rf.file_size # 0
  /\ ParsedZero
       => /\ rf.pc = "done"
          /\ rf.file_size = 0
          /\ rf.outcome = Return(TRUE)
          /\ rf.progress # <<>>
          /\ rf.progress[Len(rf.progress)] = 100
          /\ OneRecord
          /\ LastRecord.status = StatusComplete
          /\ LastRecord.size = 0
C14_Witness ==
  /\ ParsedZero
  /\ rf.pc = "done"
  /\ socket.kind = ValidKind
  /\ BufLen(rf.header_data) = Len(ValidHeader)

\* the header line a send call has written in full
HeaderOut(t) == sf[t].header_out
HeaderWritten(t) ==
  /\ impl \in Servers
  /\ HeaderOut(t) # <<>>
  /\ HeaderOut(t)[Len(HeaderOut(t))] = NEWLINE

\* C15: round trip: the header line either sender writes for the file (name,
\* size N, extension), fed to the header decode of file_client_new's
\* receive_file, yields (name, N, extension) back.
C15_RoundTrip ==
  \A t \in Senders :
    HeaderWritten(t)
      => LET h == DecodeHeader(Buf(0, HeaderOut(t)), 3)
         IN /\ h.ok
            /\ h.file_name = ServedName
            /\ h.file_size = BufLen(file)
            /\ h.file_extension = ServedExt

\* the records of transfer_history about the send to client socket t
RecordsOf(t) == {transfer_history[i] :
                   i \in {j \in 1..Len(transfer_history) :
                            transfer_history[j].client = t}}

\* C16: in both senders sent_bytes never exceeds the payload bytes the
\* transport accepted, and a send call in which a write was short or raised
\* does not return True and appends no 'Complete' record.
C16_WritesCounted ==
  \A t \in Senders :
    /\ sf[t].sent_bytes <= BufLen(sf[t].out)
    /\ (sf[t].pc = "done" /\ (sf[t].short \/ sf[t].failed))
         => /\ sf[t].outcome # Return(TRUE)
            /\ \A r \in RecordsOf(t) : r.status.kind # "Complete"

\* C17: in every state of a receive_file attempt that has parsed a complete
\* header line of size N >= 0, the payload bytes the attempt has written to
\* the destination are at most N.
C17_AtMostSizeWritten ==
  (rf.started /\ HasNewline(rf.header_data) /\ ~MalformedLine(rf.header_data)
     /\ rf.file_size >= 0)
    => Len(rf.put) <= rf.file_size

\* C18: a finished receive_file call has returned True if and only if the
\* record it appended has status 'Complete', and it has appended a 'Complete'
\* record only with received_bytes >= size.
C18_TrueIffComplete ==
  Done
    => /\ rf.outcome = Return(TRUE)
            <=> (OneRecord /\ LastRecord.status = StatusComplete)
       /\ \A r \in NewRecords :
            r.status = StatusComplete => rf.received_bytes >= rf.file_size

\* C19: a receive_file call of file_client_new makes at most MAX_RETRIES
\* attempts, sleeps the delay at most MAX_RETRIES - 1 times and only with an
\* attempt left, ends by returning True or raising, and does end when its
\* connects, reads and sleeps return.
C19_BoundedRetries ==
  /\ [](impl = "new"
          => /\ rf.attempt <= MAX_RETRIES
             /\ rf.pc \in {"args", "connect", "header", "payload"}
                  => rf.attempt < MAX_RETRIES
             /\ rf.sleeps <= MAX_RETRIES - 1
             /\ Done => (rf.outcome = Return(TRUE)
                           \/ rf.outcome.kind = "raise"))
  /\ [][(impl = "new" /\ rf'.sleeps # rf.sleeps)
          => /\ rf'.sleeps = rf.sleeps + 1
             /\ rf.attempt < MAX_RETRIES - 1
             /\ rf'.attempt = rf.attempt + 1]_vars
  /\ (impl = "new" /\ rf.started /\ rf.pc # "done") ~> (rf.pc = "done")
C19_Witness ==
  /\ impl = "new"
  /\ Done
  /\ rf.attempt = MAX_RETRIES - 1
  /\ rf.sleeps = MAX_RETRIES - 1
  /\ rf.outcome.kind = "raise"

\* g is h, or h with one record added at the end
AppendsOne(h, g) == g = h \/ (Len(g) = Len(h) + 1 /\ SubSeq(g, 1, Len(h)) = h)

\* C20: every step of a client or a server other than the clear operation
\* leaves download_history and transfer_history as they are or adds one record
\* at the end, with two sends running concurrently on a server and with a
\* record of an earlier call in the client's history.
C20_HistoryAppendOnly ==
  [][\/ ClearDownloadHistory
     \/ /\ AppendsOne(download_history, download_history')
        /\ AppendsOne(transfer_history, transfer_history')]_vars
C20_Witness ==
  /\ Len(download_history) = 2
  /\ download_history[1] = EarlierRecord
  /\ Done

\* the bytes a send_file call has sent once it has written i chunks
SentAfter(t, i) == Min(i * BUFFER_SIZE, sf[t].file_size)

\* C25: send_file of file_server_new.py makes one progress callback after each
\* chunk it has written, with percent = floor(sent * 100 / size); the values
\* of one send are non-decreasing and in 0..100, and the last value of a send
\* of N > 0 bytes that returned True is 100.
C25_ProgressFloor ==
  \A t \in Senders :
    impl = "file_server_new"
      => LET pr == sf[t].progress
         IN /\ sf[t].sent_bytes = SentAfter(t, Len(pr))
            /\ \A i \in 1..Len(pr) :
                 /\ pr[i] = (SentAfter(t, i) * 100) \div sf[t].file_size
                 /\ pr[i] \in 0..100
                 /\ i > 1 => pr[i - 1] <= pr[i]
            /\ (sf[t].outcome = Return(TRUE) /\ sf[t].file_size > 0)
                 => (pr # <<>> /\ pr[Len(pr)] = 100)

\* the positions in transfer_history of the records about client socket t
RecordIndexes(t) == {j \in 1..Len(transfer_history) :
                       transfer_history[j].client = t}

\* C27: every send_file call of file_server_new.py ends by returning True or
\* False, never with an exception, and has appended exactly one record:
\* 'Complete' when it returns True, 'Failed: ...' when it returns False; also
\* when the client socket is closed or no longer connected.
C27_SendFileRecords ==
  \A t \in Senders :
    (impl = "file_server_new" /\ sf[t].pc = "done")
      => /\ sf[t].outcome \in {Return(TRUE), Return(FALSE)}
         /\ Cardinality(RecordIndexes(t)) = 1
         /\ \A j \in RecordIndexes(t) :
              transfer_history[j].status.kind
                = IF sf[t].outcome = Return(TRUE) THEN "Complete"
                  ELSE "Failed: "

\* C28: when a send_file call of file_server_new.py has returned True, the
\* bytes it wrote are the header line 'name|size' and a newline, then the
\* bytes of the file in order, each write of the payload at most 4096 bytes,
\* and the payload has as many bytes as the header announces.
C28_StreamIsHeaderThenFile ==
  /\ [](\A t \in Senders :
          (impl = "file_server_new" /\ sf[t].outcome = Return(TRUE))
            => /\ sf[t].header_out = EncodeHeader2(FileName, BufLen(file))
               /\ sf[t].out = file
               /\ DecodeHeader(Buf(0, sf[t].header_out), 2).file_size
                    = BufLen(sf[t].out))
  /\ [][\A t \in Senders :
          impl = "file_server_new"
            => BufLen(sf'[t].out) - BufLen(sf[t].out) \in 0..BUFFER_SIZE]_vars
C28_Witness ==
  /\ impl = "file_server_new"
  /\ BufLen(file) = BUFFER_SIZE + 1
  /\ sf[1].outcome = Return(TRUE)
  /\ sf[2].outcome = Return(TRUE)

\* C29: receive_file of file_client_new.py opens or writes the destination
\* only in an attempt that has read a complete header line, ended by a
\* newline, and parsed it: a step of an attempt whose header read was cut
\* short by a socket error, the final attempt included, leaves the disk as it
\* is.
C29_OpenOnlyAfterHeader ==
  [][(impl = "new" /\ fs' # fs)
       => /\ HasNewline(rf'.header_data)
          /\ ~MalformedLine(rf'.header_data)]_vars

\* C30: in receive_file of file_client_new.py the first attempt truncates the
\* destination, and a retry appends only to bytes an earlier attempt of the
\* same call wrote: when the call succeeds, no byte of a file that was at the
\* path before the call is left in the destination.
C30_NoOldBytes ==
  /\ (impl = "new" /\ rf.attempt = 0 /\ rf.pc = "payload")
       => rf.file_mode = "wb"
  /\ (impl = "new" /\ Succeeded)
       => \A i \in 1..Len(fs[rf.save_path]) :
            fs[rf.save_path][i] # OldFile[1]

\* on success one more callback follows those of the payload loops, with 100
FinalCallback ==
  Succeeded => /\ Len(rf.progress) = Len(rf.gaps) + 1
               /\ rf.progress[Len(rf.progress)] = 100

\* C26 as stated: in receive_file any two consecutive non-final progress
\* callbacks of one attempt are more than 100 ms apart, the first one comes
\* more than 100 ms after the payload loop starts, and on success exactly one
\* more callback follows, with percent 100.
C26_RateLimited ==
  /\ \A i \in 1..Len(rf.gaps) : rf.gaps[i].ms > PROGRESS_INTERVAL
  /\ FinalCallback

\* C26 amended: in receive_file any two consecutive non-final progress
\* callbacks of one attempt are more than 100 ms apart, the first one comes
\* more than 100 ms after last_progress_update = time.time(), which is read
\* before the destination is opened, and on success exactly one more callback
\* follows, with percent 100.
C26_RateLimitedFromClockRead ==
  /\ \A i \in 1..Len(rf.gaps) :
       /\ rf.gaps[i].waited > PROGRESS_INTERVAL
       /\ ~rf.gaps[i].first => rf.gaps[i].ms > PROGRESS_INTERVAL
  /\ FinalCallback
C26_Witness ==
  /\ Succeeded
  /\ Len(rf.gaps) >= 2
  /\ rf.gaps[1].ms <= PROGRESS_INTERVAL
  /\ ~rf.gaps[2].first

\* C24: FileClient.disconnect never raises, after it returns connected is
\* False, and calling it twice in a row leaves the state one call leaves,
\* whatever self.socket.close() does.
C24_DisconnectIdempotent ==
  /\ [][GuiDisconnect => ~connected']_vars
  /\ [](\A x \in CloseOutcomes(socket) :
          LET once == DisconnectOf(connected, socket, x)
          IN  \A y \in CloseOutcomes(once.socket) :
                DisconnectOf(once.connected, once.socket, y) = once)

\* the first receive_file call of the client has not returned
FirstCallActive == rf.started /\ rf.pc # "done"
\* the second receive_file call is in its header loop
SecondCallActive == ui.second \in {"header", "read"}

\* C23: on one FileClient at most one receive_file call is active at any
\* time, whatever Receive and Cancel clicks the presentation layer gets: no
\* second call reads the socket while the first has not returned.
C23_OneSession == ~(impl = "new" /\ FirstCallActive /\ SecondCallActive)

\* C22: a failure while serving or notifying about one client never stops
\* the accept loop of a server that is running.
C22_AcceptLoopSurvives == srv.is_running => srv.accept.pc # "ended"

\* C21: the append of the accept loop never happens while another thread is
\* inside its loop over the list of clients (select_file and stop).
C21_ListAccessExclusive ==
  [][Len(srv'.connected_clients) > Len(srv.connected_clients)
       => srv.main.pc = "idle"]_vars

NotConnectedError == Raise(Exc("ConnectionError", "Not connected to server"))

\* C37: receive_file called on a client that is not connected raises
\* ConnectionError at once and changes nothing: nothing is read from the
\* socket, no file is created or changed, no record is appended, and
\* connected and socket stay as they were.
C37_NotConnectedChangesNothing ==
  [][(rf.pc = "idle" /\ rf'.pc # "idle" /\ ~connected)
       => /\ rf'.pc = "done"
          /\ rf'.outcome = NotConnectedError
          /\ rf'.got = <<>> /\ rf'.put = <<>> /\ rf'.progress = <<>>
          /\ socket' = socket
          /\ connected' = connected
          /\ fs' = fs
          /\ download_history' = download_history]_vars
C37_Witness ==
  /\ rf.pc = "done" /\ ~rf.started
  /\ rf.outcome = NotConnectedError
  /\ socket.state = "closed"

Hosts == {SERVER, CLIENT, ANYADDR}

\* C38: connect on a client that is connected returns False and leaves socket
\* and connected as they were; a connect whose dial fails returns False and
\* leaves connected False; connected becomes True only through a dial that
\* succeeds.
C38_ConnectContract ==
  /\ [](\A host \in Hosts, ok \in BOOLEAN, kind \in WireKinds :
          LET r == Connect(host, ok, kind)
          IN  /\ connected => /\ ~r.ret
                              /\ r.socket = socket
                              /\ r.connected = connected
                              /\ r.conns = conns
              /\ (~connected /\ ~ok) => ~r.ret /\ ~r.connected
              /\ (~connected /\ r.connected)
                   => ok /\ r.ret /\ r.socket.state = "open")
  /\ [][(~connected /\ connected')
          => socket'.state = "open" /\ conns' = conns + 1]_vars
\* the reconnect of a retry was called on a connected client and did not dial
C38_Witness ==
  /\ impl = "new" /\ rf.attempt = 2 /\ rf.pc # "done"
  /\ connected /\ conns = 1 /\ socket.state = "open"

\* the call has ended after a read that failed or met the end of the stream,
\* and nothing was dialled since the call began
EndedOnDeadSocket == Done /\ rf.faults > 0 /\ socket.conn = rf.conn0

\* C36: the connected flag reflects the connection: once receive_file has
\* ended because the peer closed or the socket failed, connected is False.
C36_FlagReflectsConnection == EndedOnDeadSocket => ~connected

\* C39: every percent receive_file passes to the progress callback lies in
\* 0..100, the values of an attempt are non-decreasing, and 100 is reported
\* only when received_bytes >= size.
C39_PercentSound ==
  /\ \A i \in 1..Len(rf.progress) : rf.progress[i] \in 0..100
  /\ rf.attempt = 0
       => \A i, j \in 1..Len(rf.progress) :
            i <= j => rf.progress[i] <= rf.progress[j]
  /\ (\E i \in 1..Len(rf.progress) : rf.progress[i] = 100)
       => rf.received_bytes >= rf.file_size

\* the accept loop of the run before the last waits for, or has taken, a
\* client on the listening socket of the last run
PreviousLoopOnNewSocket ==
  /\ srv.prev.pc \in {"accept", "append", "callback"}
  /\ srv.prev.run = srv.run

\* C35: in file_server_new at most one accept loop is active per FileServer:
\* start on a server that runs changes nothing, and after stop followed by
\* start the accept loop of the run before never accepts on the new
\* listening socket.
C35_OneAcceptLoop ==
  IsNewServer => /\ srv.is_running => Start(srv) = srv
                 /\ ~PreviousLoopOnNewSocket

\* C31: in file_server_new, for one file selection, at most one send_file
\* runs on a client socket at a time, however the accept thread (append,
\* then on_client_connected) and select_file interleave.
C31_OneSenderPerSocket ==
  (IsNewServer /\ srv.selects <= 1)
    => \A c \in Senders : srv.active[c] <= 1

\* stop has returned, every accept loop has exited and every handler thread
\* has ended
Stopped ==
  /\ srv.run > 0 /\ ~srv.is_running /\ srv.main.pc = "idle"
  /\ Ended("accept") /\ Ended("prev")
  /\ \A c \in Senders : srv.handler[c] \in {"none", "done", "died"}

\* C33: after stop has returned and the accept loop has exited, the list of
\* clients is empty and every client socket that was accepted is closed,
\* also when stop runs while accept is returning a new client.
C33_StopClosesAll ==
  Stopped => /\ srv.connected_clients = <<>>
             /\ \A c \in Senders : srv.sock[c] \in {"none", "closed"}

\* C34: in flet_server every client socket that was accepted is removed from
\* clients and closed when its _handle_client thread ends, however the
\* thread ends.
C34_HandlerCleansUp ==
  impl = "flet_server"
    => \A c \in Senders :
         srv.handler[c] \in {"done", "died"}
           => /\ ~Contains(srv.connected_clients, c)
              /\ srv.sock[c] = "closed"

\* client c was accepted, its peer is alive, the server runs and a file is
\* selected
Waiting(c) ==
  /\ IsNewServer /\ srv.is_running /\ srv.selected_file
  /\ srv.sock[c] = "open"
\* a send to c was started, or the server was stopped, or the peer died
Answered(c) ==
  srv.sends[c] >= 1 \/ ~srv.is_running \/ srv.sock[c] # "open"

\* C32: in file_server_new every client accepted while the server runs is
\* eventually sent the selected file at least once, once a file has been
\* selected, however the accept thread and the GUI thread interleave.
C32_EveryClientServed ==
  \A c \in Senders : [](Waiting(c) => <>Answered(c))

====
